---- MODULE Spec2Model ----
(***************************************************************************)
(* Model of src/image-backend.py: a Flask backend with the routes          *)
(* /edit-image, /generate-variation, /generate-smart and /health.          *)
(*                                                                         *)
(* A handler is a sequential procedure whose only blocking points are its  *)
(* calls to the OpenAI client.  Each handler is therefore cut at those     *)
(* calls: one action runs the handler from its entry up to the first       *)
(* external call (or to its return), and one action per external call      *)
(* runs it from the call's completion to the next call or to the return.   *)
(* Handlers share no mutable state, so one request in flight shows every   *)
(* behaviour of a request.                                                 *)
(* create_edit_mask (lines 51-85) is called by no handler and has no       *)
(* action.                                                                 *)
(*                                                                         *)
(* Text is modelled as a sequence of fragments.  Text the code inspects    *)
(* (the prompt it strips, the upstream message it searches for "429") is   *)
(* spelled out one character per fragment; literals of the code are one    *)
(* fragment each.                                                          *)
(***************************************************************************)
EXTENDS Integers, Sequences, FiniteSets, TLC

\* ------------------------------------------------------------------ bounds
MaxLen == 2       \* longest prompt / completion text, in characters
MaxDim == 3       \* largest width and height of an uploaded image

\* --------------------------------------------------------------- constants
TargetSize == 1024    \* resize((1024, 1024), ...), size="1024x1024"

\* ------------------------------------------------------------------- text
Chars == {" ", "a"}

SeqsUpTo(S, n) == UNION {[1..k -> S] : k \in 0..n}

Texts == SeqsUpTo(Chars, MaxLen)

IsSpace(c) == c = " "

RECURSIVE LStrip(_)
LStrip(s) == IF s # <<>> /\ IsSpace(Head(s)) THEN LStrip(Tail(s)) ELSE s

RECURSIVE RStrip(_)
RStrip(s) ==
    IF s # <<>> /\ IsSpace(s[Len(s)]) THEN RStrip(SubSeq(s, 1, Len(s) - 1)) ELSE s

\* str.strip()
Strip(s) == RStrip(LStrip(s))

\* pat in s
Contains(s, pat) ==
    \E i \in 1..(Len(s) - Len(pat) + 1) : SubSeq(s, i, i + Len(pat) - 1) = pat

Code429 == <<"4", "2", "9">>

\* ----------------------------------------------------------------- images
Modes == {"RGB", "RGBA"}

NoImage == [kind |-> "none", mode |-> "none", width |-> 0, height |-> 0]

\* the bytes of an upload: nothing, something PIL cannot decode, or an image
Payloads ==
    {[kind |-> "empty", mode |-> "none", width |-> 0, height |-> 0],
     [kind |-> "garbage", mode |-> "none", width |-> 0, height |-> 0]}
    \cup {[kind |-> "image", mode |-> m, width |-> w, height |-> h] :
             m \in Modes, w \in 1..MaxDim, h \in 1..MaxDim}

NoMask == [present |-> FALSE, width |-> 0, height |-> 0, coverage |-> "none"]

Min(a, b) == IF a < b THEN a ELSE b
Max(a, b) == IF a < b THEN b ELSE a


\* image.convert('RGBA') when image.mode != 'RGBA'
convert(image, mode) == IF image.mode # mode THEN [image EXCEPT !.mode = mode] ELSE image

\* the mutant of crop_box: the longer side taken for the shorter one
crop_box_longer_side(width, height) ==
    LET size == Max(width, height)
        left == (width - size) \div 2
        top == (height - size) \div 2
    IN  <<left, top, left + size, top + size>>

\* (left, top, right, bottom) of the centred square
crop_box(width, height) ==
    LET size == Min(width, height)
        left == (width - size) \div 2
        top == (height - size) \div 2
        right == left + size
        bottom == top + size
    IN  <<left, top, right, bottom>>

\* image.crop(box): the result has the box's extent
crop(image, box) ==
    [image EXCEPT !.width = box[3] - box[1], !.height = box[4] - box[2]]

\* image.resize((w, h), LANCZOS)
resize(image, w, h) == [image EXCEPT !.width = w, !.height = h]

NoPrep ==
    [called |-> FALSE, ok |-> FALSE, msg |-> <<>>, box |-> <<0, 0, 0, 0>>,
     image |-> NoImage]

\* prepare_image_for_edit(image_bytes): its result, or the exception it raises
prepare_image_for_edit(image_bytes) ==
    IF image_bytes.kind # "image"
    THEN [called |-> TRUE, ok |-> FALSE,
          msg |-> <<"Image preparation failed: ", "cannot identify image file">>,
          box |-> <<0, 0, 0, 0>>, image |-> NoImage]
    ELSE LET image == convert(image_bytes, "RGBA")
             box == crop_box(image.width, image.height)
             square_image == resize(crop(image, box), TargetSize, TargetSize)
         IN  [called |-> TRUE, ok |-> TRUE, msg |-> <<>>, box |-> box,
              image |-> square_image]

\* --------------------------------------------------------------- requests
EDIT == "/edit-image"
VARIATION == "/generate-variation"
SMART == "/generate-smart"
HEALTH == "/health"

PostRoutes == {EDIT, VARIATION, SMART}
PromptRoutes == {EDIT, SMART}

Filenames == {"", "a.png"}

\* request.files / request.form of a POST; for an absent field the value is unused
PostRequests ==
    {[route |-> rt, hasImage |-> TRUE, hasPrompt |-> hp, hasMask |-> hm,
      prompt |-> IF hp THEN p ELSE <<>>, filename |-> f, payload |-> b] :
        rt \in PostRoutes, hp \in BOOLEAN, hm \in BOOLEAN, p \in Texts,
        f \in Filenames, b \in Payloads}
    \cup
    {[route |-> rt, hasImage |-> FALSE, hasPrompt |-> hp, hasMask |-> hm,
      prompt |-> IF hp THEN p ELSE <<>>, filename |-> "", payload |-> NoImage] :
        rt \in PostRoutes, hp \in BOOLEAN, hm \in BOOLEAN, p \in Texts}

HealthRequest ==
    [route |-> HEALTH, hasImage |-> FALSE, hasPrompt |-> FALSE, hasMask |-> FALSE,
     prompt |-> <<>>, filename |-> "", payload |-> NoImage]

NoRequest ==
    [route |-> "none", hasImage |-> FALSE, hasPrompt |-> FALSE, hasMask |-> FALSE,
     prompt |-> <<>>, filename |-> "", payload |-> NoImage]

\* ------------------------------------------------- external collaborators
NoErr == [kind |-> "none", msg |-> <<>>]

\* what str(e) of an exception of the OpenAI client reads; a quota error
\* arrives with HTTP status 429 (insufficient_quota) or 400 (billing limit)
UpstreamErrors ==
    {[kind |-> "rate_limit", msg |-> <<"4", "2", "9">>],
     [kind |-> "quota", msg |-> <<"4", "2", "9", "q">>],
     [kind |-> "quota", msg |-> <<"4", "0", "0", "q">>],
     [kind |-> "other", msg |-> <<"5", "0", "0">>],
     [kind |-> "other", msg |-> <<"4", "0", "2", "9">>]}

IndexError == [kind |-> "internal", msg |-> <<"list index out of range">>]
AttributeError ==
    [kind |-> "internal", msg |-> <<"'NoneType' object has no attribute 'strip'">>]

\* response.data of an image call: the asset URLs
DataLists == {<<>>, <<"u1">>, <<"u2", "u1">>}

\* the client was built with no usable key: the service refuses the call
AuthError == [kind |-> "auth", msg |-> <<"4", "0", "1">>]

\* what an image call (edit, create_variation, generate) comes back with,
\* the client having been built with the environment's key
ImageOutcomes(key) ==
    IF ~key
    THEN {[ok |-> FALSE, data |-> <<>>, content |-> <<>>, hasContent |-> FALSE,
           err |-> AuthError]}
    ELSE {[ok |-> TRUE, data |-> d, content |-> <<>>, hasContent |-> FALSE,
           err |-> NoErr] : d \in DataLists}
         \cup
         {[ok |-> FALSE, data |-> <<>>, content |-> <<>>, hasContent |-> FALSE,
           err |-> e] : e \in UpstreamErrors}

\* what chat.completions.create comes back with: message.content is text or None
ChatOutcomes(key) ==
    IF ~key
    THEN {[ok |-> FALSE, data |-> <<>>, content |-> <<>>, hasContent |-> FALSE,
           err |-> AuthError]}
    ELSE {[ok |-> TRUE, data |-> <<>>, content |-> t, hasContent |-> TRUE,
           err |-> NoErr] : t \in Texts}
         \cup
         {[ok |-> TRUE, data |-> <<>>, content |-> <<>>, hasContent |-> FALSE,
           err |-> NoErr]}
         \cup
         {[ok |-> FALSE, data |-> <<>>, content |-> <<>>, hasContent |-> FALSE,
           err |-> e] : e \in UpstreamErrors}

NoCall ==
    [api |-> "none", image |-> NoImage, prompt |-> <<>>, mask |-> NoMask, n |-> 0,
     size |-> 0, state |-> "none", data |-> <<>>, content |-> <<>>,
     hasContent |-> FALSE, err |-> NoErr]

\* a call as issued: its arguments, and no result yet
Call(api, image, prompt, mask, n, size) ==
    [NoCall EXCEPT !.api = api, !.image = image, !.prompt = prompt, !.mask = mask,
                   !.n = n, !.size = size, !.state = "pending"]

\* a call as completed with outcome o
Completed(c, o) ==
    [c EXCEPT !.state = IF o.ok THEN "ok" ELSE "failed", !.data = o.data,
              !.content = o.content, !.hasContent = o.hasContent, !.err = o.err]

\* -------------------------------------------------------------- responses
NoResp == [status |-> 0, body |-> [k \in {} |-> <<>>], exc |-> FALSE]

\* jsonify(body), status; exc: the return sits in an except block
Response(status, body, exc) == [status |-> status, body |-> body, exc |-> exc]

\* a handler's step ends by returning a response ...
Return(resp, prep) == [next |-> "done", resp |-> resp, call |-> NoCall, prep |-> prep]
\* ... or by blocking in an external call
Await(next, call, prep) == [next |-> next, resp |-> NoResp, call |-> call, prep |-> prep]


\* ------------------------------------------------------------ /edit-image
\* edit_image, from its entry to client.images.edit(...) or to its return
edit_image_upto_call(r, key) ==
    IF ~key
    THEN Return(Response(500, [error |-> "OpenAI API key not configured"], FALSE), NoPrep)
    ELSE IF ~r.hasImage \/ ~r.hasPrompt
    THEN Return(Response(400, [error |-> "Missing image or prompt"], FALSE), NoPrep)
    ELSE LET edit_prompt == Strip(r.prompt) IN
    IF edit_prompt = <<>>
    THEN Return(Response(400, [error |-> "Edit prompt cannot be empty"], FALSE), NoPrep)
    ELSE IF r.filename = ""
    THEN Return(Response(400, [error |-> "No image file selected"], FALSE), NoPrep)
    ELSE IF r.payload.kind = "empty"
    THEN Return(Response(400, [error |-> "Empty image file"], FALSE), NoPrep)
    ELSE LET prepared == prepare_image_for_edit(r.payload) IN
    IF ~prepared.ok
    THEN Return(Response(500, [error |-> "Failed to prepare image",
                               details |-> prepared.msg], TRUE), prepared)
    ELSE Await("edit_wait",
               Call("edit", prepared.image, edit_prompt, NoMask, 1, TargetSize),
               prepared)

\* the mutant of edit_image_after_call: a failed edit call is issued again
edit_image_retry(r, c, prep) ==
    IF c.state = "failed"
    THEN Await("edit_wait", Call("edit", c.image, c.prompt, c.mask, c.n, c.size), prep)
    ELSE Return(Response(200, [image_url |-> IF c.data = <<>> THEN "" ELSE c.data[1],
                               edit_prompt |-> c.prompt,
                               method |-> "OpenAI Edit API"], FALSE), prep)

\* edit_image, from the completion c of client.images.edit(...) to its return
edit_image_after_call(r, c, prep) ==
    LET e == IF c.state = "failed" THEN c.err
             ELSE IF c.data = <<>> THEN IndexError ELSE NoErr
        error_msg == e.msg
    IN  IF e = NoErr
        THEN Return(Response(200, [image_url |-> c.data[1],
                                   edit_prompt |-> Strip(r.prompt),
                                   method |-> "OpenAI Edit API"], FALSE), prep)
        ELSE IF Contains(error_msg, Code429)
        THEN Return(Response(429, [error |-> "Rate limit exceeded",
                                   message |-> "Too many edit requests. Please wait before trying again.",
                                   details |-> error_msg], TRUE), prep)
        ELSE Return(Response(500, [error |-> "Failed to edit image",
                                   details |-> error_msg], TRUE), prep)

\* ----------------------------------------------------- /generate-variation
\* the mutant of generate_variation_upto_call: the image field is not looked
\* for, and request.files['image'] raises into the handler's except block
generate_variation_unchecked(r) ==
    IF ~r.hasImage
    THEN Return(Response(500, [error |-> "Failed to generate variation",
                               details |-> <<"400 Bad Request: ", "KeyError: 'image'">>],
                         TRUE), NoPrep)
    ELSE LET prepared == prepare_image_for_edit(r.payload) IN
    IF ~prepared.ok
    THEN Return(Response(500, [error |-> "Failed to generate variation",
                               details |-> prepared.msg], TRUE), prepared)
    ELSE Await("variation_wait",
               Call("variation", prepared.image, <<>>, NoMask, 1, TargetSize), prepared)

\* generate_variation, from its entry to client.images.create_variation(...)
\* or to its return
generate_variation_upto_call(r) ==
    IF ~r.hasImage
    THEN Return(Response(400, [error |-> "Missing image"], FALSE), NoPrep)
    ELSE LET prepared == prepare_image_for_edit(r.payload) IN
    IF ~prepared.ok
    THEN Return(Response(500, [error |-> "Failed to generate variation",
                               details |-> prepared.msg], TRUE), prepared)
    ELSE Await("variation_wait",
               Call("variation", prepared.image, <<>>, NoMask, 1, TargetSize), prepared)

\* generate_variation, from the completion c of create_variation to its return
generate_variation_after_call(r, c, prep) ==
    LET e == IF c.state = "failed" THEN c.err
             ELSE IF c.data = <<>> THEN IndexError ELSE NoErr
    IN  IF e = NoErr
        THEN Return(Response(200, [image_url |-> c.data[1],
                                   method |-> "OpenAI Variation API"], FALSE), prep)
        ELSE Return(Response(500, [error |-> "Failed to generate variation",
                                   details |-> e.msg], TRUE), prep)

\* --------------------------------------------------------- /generate-smart
\* generate_smart, from its entry to client.chat.completions.create(...) or
\* to its return; the completion is sent the uploaded bytes as they are
generate_smart_upto_analysis(r) ==
    IF ~r.hasImage \/ ~r.hasPrompt
    THEN Return(Response(400, [error |-> "Missing image or prompt"], FALSE), NoPrep)
    ELSE LET modification_request == Strip(r.prompt) IN
         Await("analysis_wait",
               Call("chat", r.payload, modification_request, NoMask, 1, 0), NoPrep)

\* the mutant of generate_smart_after_analysis: the except block of the
\* analysis call does not return, and the handler goes on to generate
generate_smart_no_short_circuit(r, c) ==
    Await("generate_wait",
          Call("generate", NoImage, Strip(c.content), NoMask, 1, TargetSize), NoPrep)

\* generate_smart, from the completion c of the analysis call to
\* client.images.generate(...) or to its return
generate_smart_after_analysis(r, c) ==
    IF c.state = "failed"
    THEN Return(Response(500, [error |-> "Failed to analyze image",
                               details |-> c.err.msg], TRUE), NoPrep)
    ELSE IF ~c.hasContent
    THEN Return(Response(500, [error |-> "Internal Server Error",
                               details |-> AttributeError.msg], TRUE), NoPrep)
    ELSE LET dalle_prompt == Strip(c.content) IN
         Await("generate_wait",
               Call("generate", NoImage, dalle_prompt, NoMask, 1, TargetSize), NoPrep)

\* generate_smart, from the completion c of client.images.generate(...) to
\* its return
generate_smart_after_generate(r, c) ==
    IF c.state = "failed"
    THEN LET error_msg == c.err.msg IN
         IF Contains(error_msg, Code429)
         THEN Return(Response(429, [error |-> "Rate limit exceeded",
                                    message |-> "Too many requests. Please wait before trying again."],
                              TRUE), NoPrep)
         ELSE Return(Response(500, [error |-> "Failed to generate image",
                                    details |-> error_msg], TRUE), NoPrep)
    ELSE IF c.data = <<>>
    THEN Return(Response(500, [error |-> "Internal Server Error",
                               details |-> IndexError.msg], TRUE), NoPrep)
    ELSE Return(Response(200, [image_url |-> c.data[1],
                               prompt_used |-> c.prompt,
                               method |-> "Smart DALL-E Generation"], FALSE), NoPrep)

\* ---------------------------------------------------------------- /health
health_check_response ==
    Response(200, [status |-> "healthy", message |-> "Image Editor API is running"], FALSE)

\* ------------------------------------------------------------------ state
VARIABLES
    apiKey,     \* os.getenv("OPENAI_API_KEY") is truthy: set, and not empty
    pc,         \* where the request in flight is in its handler
    req,        \* the request in flight
    calls,      \* the external calls of the request in flight, in order
    resp,       \* the response to the request in flight
    prep        \* the request's prepare_image_for_edit call: its box and result

vars == <<apiKey, pc, req, calls, resp, prep>>

Init ==
    /\ apiKey \in BOOLEAN
    /\ pc = "idle"
    /\ req = NoRequest
    /\ calls = <<>>
    /\ resp = NoResp
    /\ prep = NoPrep

\* a request arrives and is routed to its handler
Receive ==
    /\ pc = "idle"
    /\ \E r \in PostRequests \cup {HealthRequest} : req' = r
    /\ pc' = "routed"
    /\ UNCHANGED <<apiKey, calls, resp, prep>>

\* the response is sent; nothing of the request is kept
Send ==
    /\ pc = "done"
    /\ pc' = "idle"
    /\ req' = NoRequest
    /\ calls' = <<>>
    /\ resp' = NoResp
    /\ prep' = NoPrep
    /\ UNCHANGED apiKey

\* the handler runs on to out: a response, or the next external call
RunTo(out) ==
    /\ pc' = out.next
    /\ resp' = out.resp
    /\ prep' = out.prep
    /\ calls' = IF out.call.api = "none" THEN calls ELSE Append(calls, out.call)

\* the handler resumes with c, its pending call completed, and runs on to out
ResumeTo(c, out) ==
    /\ pc' = out.next
    /\ resp' = out.resp
    /\ prep' = out.prep
    /\ calls' = IF out.call.api = "none"
                THEN [calls EXCEPT ![Len(calls)] = c]
                ELSE Append([calls EXCEPT ![Len(calls)] = c], out.call)

Pending == calls[Len(calls)]

edit_image ==
    /\ pc = "routed" /\ req.route = EDIT
    /\ RunTo(edit_image_upto_call(req, apiKey))
    /\ UNCHANGED <<apiKey, req>>

edit_image_return ==
    /\ pc = "edit_wait"
    /\ \E o \in ImageOutcomes(apiKey) :
        LET c == Completed(Pending, o) IN ResumeTo(c, edit_image_after_call(req, c, prep))
    /\ UNCHANGED <<apiKey, req>>

generate_variation ==
    /\ pc = "routed" /\ req.route = VARIATION
    /\ RunTo(generate_variation_upto_call(req))
    /\ UNCHANGED <<apiKey, req>>

generate_variation_return ==
    /\ pc = "variation_wait"
    /\ \E o \in ImageOutcomes(apiKey) :
        LET c == Completed(Pending, o)
        IN  ResumeTo(c, generate_variation_after_call(req, c, prep))
    /\ UNCHANGED <<apiKey, req>>

generate_smart ==
    /\ pc = "routed" /\ req.route = SMART
    /\ RunTo(generate_smart_upto_analysis(req))
    /\ UNCHANGED <<apiKey, req>>

generate_smart_analysis_return ==
    /\ pc = "analysis_wait"
    /\ \E o \in ChatOutcomes(apiKey) :
        LET c == Completed(Pending, o) IN ResumeTo(c, generate_smart_after_analysis(req, c))
    /\ UNCHANGED <<apiKey, req>>

generate_smart_generate_return ==
    /\ pc = "generate_wait"
    /\ \E o \in ImageOutcomes(apiKey) :
        LET c == Completed(Pending, o) IN ResumeTo(c, generate_smart_after_generate(req, c))
    /\ UNCHANGED <<apiKey, req>>

health_check ==
    /\ pc = "routed" /\ req.route = HEALTH
    /\ RunTo(Return(health_check_response, NoPrep))
    /\ UNCHANGED <<apiKey, req>>

Next ==
    \/ Receive
    \/ Send
    \/ edit_image
    \/ edit_image_return
    \/ generate_variation
    \/ generate_variation_return
    \/ generate_smart
    \/ generate_smart_analysis_return
    \/ generate_smart_generate_return
    \/ health_check

Spec == Init /\ [][Next]_vars


\* ------------------------------------------------------------------ claims
ImageApis == {"edit", "variation", "generate"}

\* the request in flight lacks the image field, or the prompt field on a
\* route that reads one
MissingField ==
    /\ req.route \in PostRoutes
    /\ ~req.hasImage \/ (req.route \in PromptRoutes /\ ~req.hasPrompt)

\* C1, as claimed: a request missing the image field or a required prompt
\* field is answered 400 and issues no external call, whatever the credential.
C1_MissingFieldIs400 ==
    MissingField => calls = <<>> /\ (pc = "done" => resp.status = 400)

\* C1, amended: a request missing the image field or a required prompt field
\* issues no external call and is answered 400, except on /edit-image with
\* the credential missing, where the answer is the 500 configuration error.
C1_MissingFieldIs400UnlessUnconfiguredEdit ==
    MissingField =>
        /\ calls = <<>>
        /\ pc = "done" =>
            IF req.route = EDIT /\ ~apiKey
            THEN resp.status = 500 /\ resp.body.error = "OpenAI API key not configured"
            ELSE resp.status = 400

\* C1 witness: a request without its image, credential missing, answered 400
C1_Witness ==
    /\ pc = "done" /\ MissingField /\ ~apiKey /\ ~req.hasImage
    /\ req.route = SMART /\ resp.status = 400

\* the request in flight carries its fields, and one of them is empty
EmptyField ==
    /\ req.route \in PostRoutes
    /\ req.hasImage
    /\ req.route \in PromptRoutes => req.hasPrompt
    /\ \/ req.route \in PromptRoutes /\ Strip(req.prompt) = <<>>
       \/ req.filename = ""
       \/ req.payload.kind = "empty"

\* C2, as claimed (taken with the credential configured): a blank prompt, an
\* empty filename or a zero-byte image is answered 400 with no external call.
C2_EmptyFieldIs400 ==
    apiKey /\ EmptyField => calls = <<>> /\ (pc = "done" => resp.status = 400)

\* C3: a generation call comes right after an analysis call that succeeded,
\* and a failed analysis call is the request's last call, answered with an error.
C3_FailedAnalysisStopsGeneration ==
    /\ \A i \in DOMAIN calls :
        calls[i].api = "generate" =>
            i > 1 /\ calls[i - 1].api = "chat" /\ calls[i - 1].state = "ok"
    /\ \A i \in DOMAIN calls :
        calls[i].api = "chat" /\ calls[i].state = "failed" =>
            /\ i = Len(calls)
            /\ pc = "done"
            /\ resp.status >= 400
            /\ "error" \in DOMAIN resp.body

\* C3 witness: /generate-smart answered after its analysis call failed
C3_Witness ==
    /\ pc = "done" /\ req.route = SMART
    /\ Len(calls) = 1 /\ calls[1].api = "chat" /\ calls[1].state = "failed"
    /\ resp.status = 500

\* C4, as claimed: a rate-limit failure of an image call is answered 429, a
\* quota failure with an error status of its own, neither 429 nor 500.
C4_RateLimitAndQuotaStatuses ==
    pc = "done" /\ calls # <<>> /\ Pending.api \in ImageApis /\ Pending.state = "failed" =>
        /\ Pending.err.kind = "rate_limit" => resp.status = 429
        /\ Pending.err.kind = "quota" => resp.status >= 400 /\ resp.status \notin {429, 500}

\* C5, as claimed (taken for requests that carry their fields): with the
\* credential missing, a request to a route that uses an external collaborator
\* issues no external call and is answered with the configuration error.
C5_MissingCredentialIsConfigError ==
    ~apiKey /\ req.route \in PostRoutes /\ req.hasImage /\ req.hasPrompt =>
        /\ calls = <<>>
        /\ pc = "done" =>
            /\ resp.status = 500
            /\ resp.body.error = "OpenAI API key not configured"

\* C6, as claimed: an error response has an error key, and one returned from
\* an except block has a details key too.
C6_ErrorBodiesCarryDetails ==
    pc = "done" /\ resp.status >= 400 =>
        /\ "error" \in DOMAIN resp.body
        /\ resp.exc => "details" \in DOMAIN resp.body

\* C7, as claimed: the edit call of a request without a mask field carries a
\* full-coverage mask of the prepared image's size, 1024x1024.
C7_EditCallCarriesFullMask ==
    \A i \in DOMAIN calls :
        calls[i].api = "edit" /\ ~req.hasMask =>
            /\ calls[i].mask.present
            /\ calls[i].mask.coverage = "full"
            /\ calls[i].mask.width = calls[i].image.width
            /\ calls[i].mask.height = calls[i].image.height
            /\ calls[i].mask.width = TargetSize
            /\ calls[i].mask.height = TargetSize

\* C8, as claimed: a 200 response of /generate-smart or /edit-image has the
\* keys image_url, prompt_used and method; image_url is the first URL the
\* image service returned and prompt_used the prompt it was sent.
C8_SuccessBodyKeys ==
    pc = "done" /\ resp.status = 200 /\ req.route \in {SMART, EDIT} =>
        /\ DOMAIN resp.body = {"image_url", "prompt_used", "method"}
        /\ resp.body.image_url = Pending.data[1]
        /\ resp.body.prompt_used = Pending.prompt

\* C9: for a decodable W x H image, prepare_image_for_edit crops the box
\* (left, top, left+side, top+side) with side = min(W, H), left =
\* floor((W-side)/2), top = floor((H-side)/2); the box lies inside the image
\* and the result is 1024 x 1024 in RGBA.
C9_CropBoxCentredAndOutputFixed ==
    prep.called /\ req.payload.kind = "image" =>
        LET W == req.payload.width
            H == req.payload.height
            side == IF W <= H THEN W ELSE H
            left == (W - side) \div 2
            top == (H - side) \div 2
        IN  /\ prep.ok
            /\ prep.box = <<left, top, left + side, top + side>>
            /\ 0 <= prep.box[1] /\ 0 <= prep.box[2]
            /\ prep.box[3] <= W /\ prep.box[4] <= H
            /\ prep.box[3] - prep.box[1] = side /\ prep.box[4] - prep.box[2] = side
            /\ prep.image.width = 1024 /\ prep.image.height = 1024
            /\ prep.image.mode = "RGBA"

\* C9 witness: a 1-pixel-wide image that is not square and not RGBA, prepared
C9_Witness ==
    /\ prep.called /\ prep.ok
    /\ req.payload.width = 1 /\ req.payload.height > 1 /\ req.payload.mode = "RGB"

\* C10: in a request no collaborator is called twice, a failed call is the
\* request's last one and is answered with an error, no call is left pending
\* once the response is there ...
C10_AtMostOnce ==
    /\ \A i, j \in DOMAIN calls : calls[i].api = calls[j].api => i = j
    /\ \A i \in DOMAIN calls :
        calls[i].state = "failed" =>
            i = Len(calls) /\ pc = "done" /\ resp.status >= 400
    /\ \A i \in DOMAIN calls :
        calls[i].state = "pending" => i = Len(calls) /\ pc \notin {"done", "idle"}

\* ... and no call is issued once the response is there.
C10_NoCallAfterResponse ==
    Len(calls') > Len(calls) => resp.status = 0 /\ resp'.status = 0 /\ pc # "done"

\* C10: nothing is retried (the two parts above, in every step).
C10_NothingRetried == []C10_AtMostOnce /\ [][C10_NoCallAfterResponse]_vars

\* C10 witness: a request answered after its second external call failed
C10_Witness ==
    /\ pc = "done" /\ Len(calls) = 2
    /\ calls[1].state = "ok" /\ calls[2].state = "failed"
    /\ resp.status >= 400

====
